---- MODULE Spec2Model ----
(***************************************************************************)
(* DailyUp micro-coach: the check-in handler of src/streamlit_app.py, its  *)
(* OpenAI adapter (ai_coach) and its rule-based selector (fallback_coach). *)
(*                                                                         *)
(* A text is a sequence of fragments (strings) whose concatenation is the  *)
(* Python string.  Notes and upstream JSON strings are written one         *)
(* character per fragment, so lower(), strip() and the substring test      *)
(* `w in t` are computed position by position as Python computes them.     *)
(* The literals of the source are cut into a few fragments each, the cut   *)
(* points chosen so that the words a property looks for are fragments.     *)
(***************************************************************************)
EXTENDS Integers, Sequences, FiniteSets, TLC

VARIABLES
    pc,        \* position of the check-in handler (lines 646-673)
    note,      \* user_note, a text
    slot,      \* the st.radio choice
    apiKey,    \* os.getenv("OPENAI_API_KEY"): "unset", "empty" or "set"
    canImport, \* whether `from openai import OpenAI` succeeds
    reply,     \* what the generation service answered (NoReply before)
    ret,       \* what ai_coach returned (None before)
    result,    \* the handler's `result` (None when there is none)
    calls,     \* external generation calls made during this check-in
    notice,    \* the callouts the handler has shown, in order
    shown      \* the plan items _format_steps put on the page

\* src/app.py, the Gradio program of the repository
VARIABLES
    apc,         \* position of the running handler (on_get / on_send)
    request,     \* the handler's arguments: slot_value, reply_text, tone_value
    sentLoaded,  \* whether _safe_sentiment() could load the pipeline
    genLoaded,   \* whether _gen_tok and _gen_model were loaded
    sentiment,   \* `s` of on_send: the label and the score (in hundredths)
    coach,       \* `plan` of on_send: the text generate_coach_reply returned
    logFile,     \* LOG_PATH: "missing" or the list of records it holds
    profileFile, \* PROFILE_PATH: "missing" or the profile it holds
    scorerCalls, \* calls of the sentiment pipeline made by this handler
    genCalls,    \* calls of _gen_model.generate made by this handler
    page,        \* what the handler returned to the page
    rng,         \* the state of `random`: how many draws were made
    clock,       \* datetime.utcnow(), as a count of the readings made
    runs         \* handlers started so far

\* one function of src/app.py applied to drawn arguments
VARIABLES
    fn,          \* the function applied
    args,        \* its arguments
    out,         \* what it returned (Pending before the call)
    again        \* what a later call with the same arguments returned

pageVars == <<pc, note, slot, apiKey, canImport, reply, ret, result, calls, notice, shown>>

appVars == <<apc, request, sentLoaded, genLoaded, sentiment, coach, logFile,
             profileFile, scorerCalls, genCalls, page, rng, clock, runs>>

fnVars == <<fn, args, out, again>>

vars == <<pageVars, appVars, fnVars>>

---------------------------------------------------------------------------
(* Bounds of the model *)

\* a note is at most MaxWords fragments of NoteWords
MaxWords == 2
\* an upstream plan array has at most MaxPlan items
MaxPlan == 4

---------------------------------------------------------------------------
(* Texts *)

\* the characters str.strip() removes by default
WS == {" ", "\n"}

RECURSIVE Flatten(_)
Flatten(ss) == IF ss = <<>> THEN <<>> ELSE Head(ss) \o Flatten(Tail(ss))

\* str.lower(), character by character
LowerChar(c) ==
    CASE c = "G" -> "g"
      [] c = "T" -> "t"
      [] OTHER -> c

Lower(t) == [i \in 1..Len(t) |-> LowerChar(t[i])]

\* str.strip(): drop leading and trailing whitespace
RECURSIVE LStrip(_)
LStrip(t) == IF t # <<>> /\ Head(t) \in WS THEN LStrip(Tail(t)) ELSE t

RECURSIVE RStrip(_)
RStrip(t) ==
    IF t # <<>> /\ t[Len(t)] \in WS THEN RStrip(SubSeq(t, 1, Len(t) - 1)) ELSE t

Strip(t) == RStrip(LStrip(t))

\* Python's `w in t` on strings: w occurs in t at some position
Contains(t, w) ==
    \E i \in 0..(Len(t) - Len(w)) : SubSeq(t, i + 1, i + Len(w)) = w

\* any(w in t for w in ws)
HasAny(t, ws) == \E w \in ws : Contains(t, w)

\* str.title() on the three slot names
Title(s) ==
    CASE s = "morning" -> "Morning"
      [] s = "midday" -> "Midday"
      [] s = "evening" -> "Evening"

---------------------------------------------------------------------------
(* Inputs *)

Slots == {"morning", "midday", "evening"}

\* the fragments notes are built from: one keyword of each context (two of
\* them capitalised), a word that matches nothing alone but makes "contest"
\* with the next fragment, and a blank
NoteWords ==
    { <<"e", "x", "a", "m">>,
      <<"s", "t", "r", "e", "s", "s">>,
      <<"G", "y", "m">>,
      <<"c", "o", "n">>,
      <<"T", "e", "s", "t">>,
      <<" ">> }

RECURSIVE WordSeqs(_)
WordSeqs(n) ==
    IF n = 0 THEN {<<>>}
    ELSE LET shorter == WordSeqs(n - 1)
         IN  shorter \cup {<<w>> \o ws : w \in NoteWords, ws \in shorter}

Notes == {Flatten(ws) : ws \in WordSeqs(MaxWords)}

---------------------------------------------------------------------------
(* The rule-based selector: fallback_coach.  The prime sign of the source  *)
(* (2', 10', 25') is written ' and the long dash is written -.            *)

ExamWords   == { <<"e","x","a","m">>, <<"e","x","a","m","e","n">>,
                 <<"t","e","s","t">>, <<"q","u","i","z">> }
StressWords == { <<"s","t","r","e","s","s">>, <<"s","t","r","e","s","s","e","d">>,
                 <<"a","n","x","i","o","u","s">>, <<"a","n","x","i","e","t","y">> }
SportWords  == { <<"w","o","r","k","o","u","t">>, <<"t","r","a","i","n">>,
                 <<"g","y","m">>, <<"s","p","o","r","t">> }

ExamReply ==
    [ analysis |-> <<"Exam", " context: clarity + quick activation + active recall.">>,
      plan     |-> << <<"Pick 1 sub-topic (write it).">>,
                      <<"One ", "25", "' ", "Pomodoro", ": active read + recall.">>,
                      <<"Create 5 flashcards and schedule a review.">> >>,
      mantra   |-> <<"Small wins compound">>,
      source   |-> "fallback" ]

StressReply ==
    [ analysis |-> <<"Stress", " detected: reduce mental load and start tiny.">>,
      plan     |-> << <<"2' ", "brain-dump", ": list all. Circle 1 doable item.">>,
                      <<"Set a 10' timer and do just the first micro-step.">>,
                      <<"Remove one distraction (phone away).">> >>,
      mantra   |-> <<"Begin before you think">>,
      source   |-> "fallback" ]

SportReply ==
    [ analysis |-> <<"Motion > motivation: reduce activation energy.">>,
      plan     |-> << <<"Prep outfit + 5' warmup.">>,
                      <<"Do 2 easy sets to get moving.">>,
                      <<"Log the session (date, sets, mood).">> >>,
      mantra   |-> <<"Motion creates momentum">>,
      source   |-> "fallback" ]

GenericReply(s) ==
    [ analysis |-> <<Title(s), " - keep one tiny clear goal.">>,
      plan     |-> << <<"Write the next 10-minute task.">>,
                      <<"Prepare one thing that reduces friction.">>,
                      <<"Commit to just 5 minutes", " and start.">> >>,
      mantra   |-> <<"One small step beats zero">>,
      source   |-> "fallback" ]

\* fallback_coach with the stress context tried before the exam context
fallback_coach_stress_first(n, s) ==
    LET t == Lower(n)
    IN  IF HasAny(t, StressWords) THEN StressReply
        ELSE IF HasAny(t, ExamWords) THEN ExamReply
        ELSE IF HasAny(t, SportWords) THEN SportReply
        ELSE GenericReply(s)

\* fallback_coach with the physical-activity context tried before the
\* stress context
fallback_coach_sport_first(n, s) ==
    LET t == Lower(n)
    IN  IF HasAny(t, ExamWords) THEN ExamReply
        ELSE IF HasAny(t, SportWords) THEN SportReply
        ELSE IF HasAny(t, StressWords) THEN StressReply
        ELSE GenericReply(s)

fallback_coach(n, s) ==
    LET t == Lower(n)
    IN  IF HasAny(t, ExamWords) THEN ExamReply
        ELSE IF HasAny(t, StressWords) THEN StressReply
        ELSE IF HasAny(t, SportWords) THEN SportReply
        ELSE GenericReply(s)

---------------------------------------------------------------------------
(* JSON values as json.loads returns them, and Python's view of them *)

JAbsent == [t |-> "absent"]         \* the key is not in the object
JNull   == [t |-> "null"]
JNum(n) == [t |-> "num", v |-> n]
JStr(x) == [t |-> "str", v |-> x]
JArr(a) == [t |-> "arr", v |-> a]
JObj(a, p, m) == [t |-> "obj", analysis |-> a, plan |-> p, mantra |-> m]

\* dict.get(key, default)
Get(v, default) == IF v.t = "absent" THEN default ELSE v

\* str(x)
PyStr(v) ==
    CASE v.t = "str"  -> v.v
      [] v.t = "null" -> <<"N", "o", "n", "e">>
      [] v.t = "num"  -> <<ToString(v.v)>>

\* bool(x), as `x or []` tests it
Truthy(v) ==
    CASE v.t = "null" -> FALSE
      [] v.t = "num"  -> v.v # 0
      [] v.t = "str"  -> v.v # <<>>
      [] v.t = "arr"  -> v.v # <<>>

\* whether `for x in v` works, and the items it yields
Iterable(v) == v.t \in {"str", "arr"}

Items(v) ==
    IF v.t = "arr" THEN v.v
    ELSE [i \in 1..Len(v.v) |-> JStr(<<v.v[i]>>)]

---------------------------------------------------------------------------
(* The OpenAI adapter: ai_coach, from the reply on (lines 420-436) *)

Filler == <<"Commit to just 5 minutes">>

Error(msg) == [error |-> msg]

\* plan = [str(x).strip() for x in (data.get("plan") or [])][:3]
FirstThree(xs) == SubSeq(xs, 1, IF Len(xs) < 3 THEN Len(xs) ELSE 3)

\* Pad adding one filler only, whatever is missing
PadOnce(plan) ==
    IF Len(plan) < 3 THEN Append(plan, Filler) ELSE plan

\* if len(plan) < 3: plan += ["Commit to just 5 minutes"] * (3 - len(plan))
Pad(plan) ==
    IF Len(plan) < 3 THEN plan \o [i \in 1..(3 - Len(plan)) |-> Filler] ELSE plan

\* the try block, once json.loads has returned an object
FromObject(data, s) ==
    LET raw      == Get(data.plan, JNull)
        source   == IF Truthy(raw) THEN raw ELSE JArr(<<>>)
        analysis == Strip(PyStr(Get(data.analysis, JStr(<<>>))))
        mantra   == Strip(PyStr(Get(data.mantra, JStr(<<>>))))
    IN  IF ~Iterable(source) THEN Error("TypeError: object is not iterable")
        ELSE
          LET items == Items(source)
              plan  == FirstThree([i \in 1..Len(items) |-> Strip(PyStr(items[i]))])
          IN  [ analysis |-> IF analysis = <<>>
                             THEN <<Title(s), " - keep it tiny, clear, doable.">>
                             ELSE analysis,
                plan     |-> Pad(plan),
                mantra   |-> IF mantra = <<>> THEN <<"Small wins compound">> ELSE mantra,
                source   |-> "openai" ]

\* ParseContent reading a JSON value that is not an object as an empty object
ParseContentLenient(content, s) ==
    LET body == content.body
    IN  IF body.t \in {"nocontent", "garbage"}
        THEN Error("JSONDecodeError: Expecting value")
        ELSE IF body.t # "obj"
        THEN FromObject(JObj(JAbsent, JAbsent, JAbsent), s)
        ELSE FromObject(body, s)

\* content = resp.choices[0].message.content or "", the fence removed by
\* re.sub, then json.loads: a missing content and a text that is not JSON
\* raise, and so does .get on a value that is not an object
ParseContent(content, s) ==
    LET body == content.body
    IN  IF body.t \in {"nocontent", "garbage"}
        THEN Error("JSONDecodeError: Expecting value")
        ELSE IF body.t # "obj"
        THEN Error("AttributeError: object has no attribute 'get'")
        ELSE FromObject(body, s)

---------------------------------------------------------------------------
(* What the generation service can answer *)

OkText == JStr(<<"o", "k">>)

\* plan items: a clean one and one with blanks around it
ItemVals == {JStr(<<"a">>), JStr(<<" ", "b", " ">>)}

RECURSIVE ItemSeqs(_)
ItemSeqs(n) ==
    IF n = 0 THEN {<<>>}
    ELSE LET shorter == ItemSeqs(n - 1)
         IN  shorter \cup {<<x>> \o xs : x \in ItemVals, xs \in shorter}

PlanVals ==
    {JArr(a) : a \in ItemSeqs(MaxPlan)}
      \cup { JAbsent, JNull, JNum(0), JNum(5), JStr(<<>>),
             JStr(<<"x", "y">>), JStr(<<"w", "x", "y", "z">>),
             JArr(<<JNum(7), JNull>>) }

FieldVals == {JAbsent, JNull, JStr(<<>>), JStr(<<" ">>), JStr(<<" ", "o", "k">>)}

ThreeItems == JArr(<<JStr(<<"a">>), JStr(<<"a">>), JStr(<<"a">>)>>)

Bodies ==
    {JObj(OkText, p, OkText) : p \in PlanVals}
      \cup {JObj(a, ThreeItems, m) : a \in FieldVals, m \in FieldVals}
      \cup { JObj(JAbsent, JAbsent, JAbsent), JObj(JStr(<<>>), JArr(<<>>), JNull),
             JArr(<<>>), JNull, JNum(5), OkText,
             [t |-> "garbage"], [t |-> "nocontent"] }

\* a reply's content: the body, alone or inside a ```json fence
Contents ==
    {[fenced |-> FALSE, body |-> b] : b \in Bodies}
      \cup {[fenced |-> TRUE, body |-> b] :
              b \in {JObj(OkText, ThreeItems, OkText), JObj(OkText, JArr(<<>>), OkText),
                     [t |-> "garbage"]}}

---------------------------------------------------------------------------
(* The page: ai_is_available, _format_steps and the check-in handler *)

None    == [source |-> "none"]
NoReply == [k |-> "none"]

\* ai_is_available(): the key is set and not empty, and openai imports
ai_is_available == apiKey = "set" /\ canImport

\* the items _format_steps lists: items[:3] or ["Commit to just 5 minutes"];
\* each is then escaped and wrapped in <li>, which is not modelled
FormatSteps(items) ==
    IF FirstThree(items) = <<>> THEN <<Filler>> ELSE FirstThree(items)

\* result.get("error") is truthy
IsError(r) == "error" \in DOMAIN r /\ r.error # ""

\* src/app.py is not running
AppAtRest ==
    /\ apc = "idle"
    /\ request = [handler |-> "none", slot |-> "morning", text |-> <<>>, tone |-> ""]
    /\ sentLoaded = TRUE
    /\ genLoaded = TRUE
    /\ sentiment = [label |-> <<>>, score |-> 0]
    /\ coach = <<>>
    /\ logFile = [state |-> "missing", data |-> <<>>]
    /\ profileFile = "missing"
    /\ scorerCalls = 0
    /\ genCalls = 0
    /\ page = [kind |-> "none"]
    /\ rng = 0
    /\ clock = 0
    /\ runs = 0

\* no function is being applied
FnAtRest ==
    /\ fn = "none"
    /\ args = <<>>
    /\ out = [done |-> FALSE]
    /\ again = [done |-> FALSE]

Init ==
    /\ pc = "idle"
    /\ note = <<>>
    /\ slot = "morning"
    /\ apiKey \in {"unset", "empty", "set"}
    /\ canImport \in BOOLEAN
    /\ reply = NoReply
    /\ ret = None
    /\ result = None
    /\ calls = 0
    /\ notice = <<>>
    /\ shown = <<>>
    /\ AppAtRest
    /\ FnAtRest

\* `if go:` up to the choice of the engine (lines 646-654)
Go(n, s) ==
    /\ pc = "idle"
    /\ note' = n
    /\ slot' = s
    /\ IF Strip(n) = <<>>
       THEN /\ pc' = "rejected"
            /\ notice' = <<"warn: please write a short note first">>
            /\ UNCHANGED <<result, shown>>
       ELSE IF ~ai_is_available
       THEN /\ pc' = "responded"
            /\ notice' = <<"info: OpenAI key not found - using smart fallback">>
            /\ result' = fallback_coach(n, s)
            /\ shown' = FormatSteps(result'.plan)
       ELSE /\ pc' = "client"
            /\ UNCHANGED <<notice, result, shown>>
    /\ UNCHANGED <<apiKey, canImport, reply, ret, calls>>

\* ai_coach: client = OpenAI() raises (line 395, outside the try)
ClientRaises ==
    /\ pc = "client"
    /\ pc' = "raised"
    /\ UNCHANGED <<note, slot, apiKey, canImport, reply, ret, result, calls, notice, shown>>

\* ai_coach: client.chat.completions.create(...) is called (line 410)
Send ==
    /\ pc = "client"
    /\ pc' = "sent"
    /\ calls' = calls + 1
    /\ UNCHANGED <<note, slot, apiKey, canImport, reply, ret, result, notice, shown>>

\* the call raises (network or API error; line 410 is outside the try)
CallRaises ==
    /\ pc = "sent"
    /\ pc' = "errored"
    /\ reply' = [k |-> "raise"]
    /\ UNCHANGED <<note, slot, apiKey, canImport, ret, result, calls, notice, shown>>

\* the exception leaves ai_coach and the handler, which has no try
Unwind ==
    /\ pc = "errored"
    /\ pc' = "raised"
    /\ UNCHANGED <<note, slot, apiKey, canImport, reply, ret, result, calls, notice, shown>>

\* the call returns and ai_coach parses the content (lines 420-436)
Reply(c) ==
    /\ pc = "sent"
    /\ reply' = [k |-> "content", content |-> c]
    /\ ret' = ParseContent(c, slot)
    /\ pc' = IF IsError(ret') THEN "invalid" ELSE "parsed"
    /\ UNCHANGED <<note, slot, apiKey, canImport, result, calls, notice, shown>>

\* Finish calling ai_coach again after an error instead of falling back
FinishRetry ==
    /\ pc \in {"parsed", "invalid"}
    /\ IF IsError(ret)
       THEN /\ pc' = "client"
            /\ ret' = None
            /\ UNCHANGED <<result, shown>>
       ELSE /\ pc' = "responded"
            /\ result' = ret
            /\ shown' = FormatSteps(result'.plan)
            /\ UNCHANGED ret
    /\ UNCHANGED <<note, slot, apiKey, canImport, reply, calls, notice>>

\* back in the handler: the error check and the page (lines 655-673)
Finish ==
    /\ pc \in {"parsed", "invalid"}
    /\ IF IsError(ret)
       THEN /\ notice' = Append(notice, "warn: AI error - switched to smart fallback")
            /\ result' = fallback_coach(note, slot)
       ELSE /\ result' = ret
            /\ UNCHANGED notice
    /\ shown' = FormatSteps(result'.plan)
    /\ pc' = "responded"
    /\ UNCHANGED <<note, slot, apiKey, canImport, reply, ret, calls>>

\* the next interaction reruns the script from the top
Rerun ==
    /\ pc \in {"responded", "rejected", "raised"}
    /\ pc' = "idle"
    /\ note' = <<>>
    /\ slot' = "morning"
    /\ reply' = NoReply
    /\ ret' = None
    /\ result' = None
    /\ calls' = 0
    /\ notice' = <<>>
    /\ shown' = <<>>
    /\ UNCHANGED <<apiKey, canImport>>

\* a step of the page leaves src/app.py alone
AppIdle == UNCHANGED <<appVars, fnVars>>

Next ==
    \/ \E n \in Notes, s \in Slots : Go(n, s) /\ AppIdle
    \/ ClientRaises /\ AppIdle
    \/ Send /\ AppIdle
    \/ CallRaises /\ AppIdle
    \/ Unwind /\ AppIdle
    \/ \E c \in Contents : Reply(c) /\ AppIdle
    \/ Finish /\ AppIdle
    \/ Rerun /\ AppIdle

Spec == Init /\ [][Next]_vars

---------------------------------------------------------------------------
(* Properties of the check-in *)

\* a step of the handler or of ai_coach, the rerun apart
HandlerStep ==
    \/ \E n \in Notes, s \in Slots : Go(n, s)
    \/ ClientRaises
    \/ Send
    \/ CallRaises
    \/ Unwind
    \/ \E c \in Contents : Reply(c)
    \/ Finish

\* the check-in of a non-empty note has ended
Ended == pc \in {"responded", "raised"}

\* C1: whatever the note, the slot and the outcome of the generation
\* service (call raises included), the check-in ends with a response whose
\* plan has exactly 3 steps.
C1_EndsWithThreeSteps ==
    Ended => (result # None /\ Len(result.plan) = 3)

\* C2: when the generation call (or the construction of its client) raises,
\* no exception escapes to the caller and the check-in ends with a 3-step
\* response whose source is "fallback".
C2_RaiseFallsBack ==
    /\ pc # "raised"
    /\ (reply = [k |-> "raise"] /\ pc = "responded")
         => (result.source = "fallback" /\ Len(result.plan) = 3)

\* C3: one check-in calls the generation service at most once: none before
\* the request is sent, none on the fallback path, no second one after an
\* invalid or failed reply.
C3_AtMostOneCall ==
    /\ calls <= 1
    /\ pc \in {"idle", "client", "rejected"} => calls = 0
    /\ (pc = "responded" /\ ~ai_is_available) => calls = 0
    /\ pc \in {"sent", "parsed", "invalid", "errored"} => calls = 1

C3_Witness ==
    /\ pc = "responded"
    /\ IsError(ret)
    /\ result.source = "fallback"
    /\ calls = 1

\* C4: a check-in that has left Idle and can take no further step is in
\* Responded: no request ends anywhere else.
C4_EndsResponded ==
    (pc \notin {"idle", "rejected"} /\ ~ENABLED HandlerStep) => pc = "responded"

---------------------------------------------------------------------------
(* Properties of the adapter's reply handling *)

\* the content the service returned in this check-in
Answered == reply.k = "content"
Body == reply.content.body

NotJson == Body.t \in {"garbage", "nocontent"}

\* the plan is not an array of exactly 3 items
SchemaViolation ==
    Body.t # "obj" \/ Body.plan.t # "arr" \/ Len(Body.plan.v) # 3

\* whether a field of the object is missing or holds nothing but blanks
EmptyValue(v) == v.t \in {"absent", "null"} \/ (v.t = "str" /\ Strip(v.v) = <<>>)

EmptyField ==
    /\ Body.t = "obj"
    /\ \/ EmptyValue(Body.analysis)
       \/ EmptyValue(Body.mantra)
       \/ EmptyValue(Body.plan)
       \/ (Body.plan.t = "arr" /\ Body.plan.v = <<>>)

Unreadable ==
    \/ NotJson
    \/ Body.t # "obj"
    \/ (Body.plan.t = "num" /\ Body.plan.v # 0)

UpstreamItems ==
    IF Body.plan.t = "arr" THEN Body.plan.v ELSE <<>>

HasUpstreamList ==
    /\ Answered
    /\ Body.t = "obj"
    /\ Body.plan.t \in {"arr", "absent", "null"}

AllStrings(xs) == \A i \in 1..Len(xs) : xs[i].t = "str"

Min(a, b) == IF a < b THEN a ELSE b

\* the first min(n, 3) of xs followed by 3 - min(n, 3) fillers
FirstThenFillers(xs) ==
    [i \in 1..3 |-> IF i <= Min(Len(xs), 3) THEN xs[i] ELSE Filler]

\* C6 as stated: the resulting plan is the first min(n, 3) upstream items,
\* unchanged and in order, followed by 3 - min(n, 3) fillers.
C6_ItemsKeptUnchanged ==
    (pc = "responded" /\ HasUpstreamList /\ AllStrings(UpstreamItems))
      => result.plan = FirstThenFillers([i \in 1..Len(UpstreamItems) |-> UpstreamItems[i].v])

\* C6 as amended: the resulting plan is the first min(n, 3) upstream items,
\* each converted by str() and with its leading and trailing whitespace
\* removed, in order, followed by 3 - min(n, 3) fillers; the page lists the
\* same 3 items.
C6_ItemsStrippedThenFillers ==
    (pc = "responded" /\ HasUpstreamList)
      => /\ result.plan =
              FirstThenFillers(
                [i \in 1..Len(UpstreamItems) |-> Strip(PyStr(UpstreamItems[i]))])
         /\ shown = result.plan

C6_Witness ==
    /\ pc = "responded"
    /\ HasUpstreamList
    /\ Len(UpstreamItems) = 4
    /\ result.plan = << <<"b">>, <<"a">>, <<"b">> >>

---------------------------------------------------------------------------
(* Properties of the rule-based selector *)

\* a text has the fragment f
Mentions(text, f) == \E i \in 1..Len(text) : text[i] = f

\* the check-in ended with what fallback_coach returned
FellBack == pc = "responded" /\ result.source = "fallback"

InExam   == HasAny(Lower(note), ExamWords)
InStress == HasAny(Lower(note), StressWords)
InSport  == HasAny(Lower(note), SportWords)

\* C7: the contexts are tried in the order exam, stress, physical activity,
\* generic; the analysis, the 3 steps and the mantra are those of the first
\* context the note matches, never a mix of two contexts.
C7_FirstContextWins ==
    FellBack =>
      /\ InExam => result = ExamReply
      /\ (~InExam /\ InStress) => result = StressReply
      /\ (~InExam /\ ~InStress /\ InSport) => result = SportReply
      /\ (~InExam /\ ~InStress /\ ~InSport) => result = GenericReply(slot)
      /\ result \in {ExamReply, StressReply, SportReply, GenericReply(slot)}

C7_Witness ==
    /\ FellBack
    /\ InExam
    /\ InStress
    /\ result = ExamReply

\* a down-regulation step: breathing or a brain-dump
DownRegulation(step) == Mentions(step, "brain-dump") \/ Mentions(step, "breathing")

C9_ExamMorningPomodoro ==
    (FellBack /\ slot = "morning" /\ Contains(note, <<"e", "x", "a", "m">>))
      => /\ Mentions(result.analysis, "Exam")
         /\ \E i \in 1..Len(result.plan) :
              Mentions(result.plan[i], "Pomodoro") \/ Mentions(result.plan[i], "25")

C9_Witness ==
    /\ FellBack
    /\ slot = "morning"
    /\ Contains(note, <<"e", "x", "a", "m">>)
    /\ InStress
    /\ Mentions(result.plan[2], "Pomodoro")

\* C10: for a note that matches no context the selector returns the generic
\* triple of the slot, and that triple is the slot's own: another slot
\* would have given other steps.
C10_GenericStepsDifferBySlot ==
    (FellBack /\ ~InExam /\ ~InStress /\ ~InSport)
      => /\ result = GenericReply(slot)
         /\ \A s \in Slots \ {slot} : fallback_coach(note, s).plan # result.plan

---------------------------------------------------------------------------
(* src/app.py: the keyword extractor _keywords *)

\* at most MaxTokens blank-separated words make a text
MaxTokens == 3
\* _keywords is asked for 0..MaxK keywords
MaxK == 3

_STOPWORDS ==
    { <<"i">>, <<"t","o">>, <<"t","h","e">>, <<"a">>, <<"a","n">>, 
      <<"a","n","d">>, <<"o","r">>, <<"o","f">>, <<"i","n">>, <<"o","n">>, 
      <<"f","o","r">>, <<"w","i","t","h">>, <<"i","t">>, <<"i","s">>, 
      <<"a","m">>, <<"a","r","e">>, <<"b","e">>, <<"b","e","e","n">>, 
      <<"b","e","i","n","g">>, <<"t","h","i","s">>, <<"t","h","a","t">>, 
      <<"t","h","o","s","e">>, <<"t","h","e","s","e">>, <<"m","y">>, 
      <<"m","e">>, <<"y","o","u">>, <<"y","o","u","r">>, <<"o","u","r">>, 
      <<"w","e">>, <<"h","a","v","e">>, <<"h","a","s">>, <<"h","a","d">>, 
      <<"d","o">>, <<"d","i","d">>, <<"d","o","e","s">>, <<"w","i","l","l">>, 
      <<"w","o","u","l","d">>, <<"s","h","o","u","l","d">>, <<"c","a","n">>, 
      <<"c","o","u","l","d">>, <<"a","t">>, <<"a","s">>, <<"f","r","o","m">>, 
      <<"b","y">>, <<"a","b","o","u","t">> }

\* the characters w.strip(".,!?;:()[]{}\"'") removes
Punctuation == {".", ",", "!", "?", ";", ":", "(", ")", "[", "]", "{", "}", "\"", "'"}

\* str.strip(chars)
RECURSIVE LStripOf(_, _)
LStripOf(t, chars) ==
    IF t # <<>> /\ Head(t) \in chars THEN LStripOf(Tail(t), chars) ELSE t

RECURSIVE RStripOf(_, _)
RStripOf(t, chars) ==
    IF t # <<>> /\ t[Len(t)] \in chars
    THEN RStripOf(SubSeq(t, 1, Len(t) - 1), chars) ELSE t

StripOf(t, chars) == RStripOf(LStripOf(t, chars), chars)

\* str.split(): the maximal runs of characters that are not whitespace
RECURSIVE Split(_)
Split(t) ==
    LET u == LStrip(t)
    IN  IF u = <<>> THEN <<>>
        ELSE LET ends == {i \in 1..Len(u) : u[i] \in WS}
                 n    == IF ends = {} THEN Len(u) + 1
                         ELSE CHOOSE i \in ends : \A j \in ends : i <= j
             IN  <<SubSeq(u, 1, n - 1)>> \o Split(SubSeq(u, n, Len(u)))

\* sep.join(ws)
RECURSIVE Join(_, _)
Join(ws, sep) ==
    IF ws = <<>> THEN <<>>
    ELSE IF Len(ws) = 1 THEN ws[1]
    ELSE ws[1] \o sep \o Join(Tail(ws), sep)

\* [w for w in words if w and w not in _STOPWORDS and len(w) > 2]
RECURSIVE KeepWords(_)
KeepWords(ws) ==
    IF ws = <<>> THEN <<>>
    ELSE LET w == Head(ws)
         IN  IF w # <<>> /\ w \notin _STOPWORDS /\ Len(w) > 2
             THEN <<w>> \o KeepWords(Tail(ws))
             ELSE KeepWords(Tail(ws))

\* the words of the text, stripped of punctuation and lower-cased, then
\* filtered (lines 130-131)
Candidates(s) ==
    LET raw == Split(s)
    IN  KeepWords([i \in 1..Len(raw) |-> Lower(StripOf(raw[i], Punctuation))])

\* the loop of lines 132-137: a new word is appended, and the loop stops
\* once len(out) >= k, tested after each word
RECURSIVE KeywordLoop(_, _, _)
KeywordLoop(words, outList, k) ==
    IF words = <<>> THEN outList
    ELSE LET w    == Head(words)
             next == IF \E i \in 1..Len(outList) : outList[i] = w
                     THEN outList ELSE Append(outList, w)
         IN  IF Len(next) >= k THEN next
             ELSE KeywordLoop(Tail(words), next, k)

\* the list `out` of _keywords
KeywordList(s, k) == KeywordLoop(Candidates(s), <<>>, k)

Placeholder == <<"general productivity">>

\* _keywords(s, k): ", ".join(out) if out else "general productivity"
_keywords(s, k) ==
    LET outList == KeywordList(s, k)
    IN  IF outList # <<>> THEN Join(outList, <<",", " ">>) ELSE Placeholder

\* the words texts are made of: a stopword in two letter cases, a keyword
\* with punctuation and a capital and the same keyword bare, a word of 2
\* letters, a word in brackets, a word that is all punctuation, and the
\* empty word (which gives leading, trailing and doubled blanks)
TextWords ==
    { <<"T", "h", "e">>, <<"t", "h", "e">>,
      <<"T", "e", "s", "t", ",">>, <<"t", "e", "s", "t">>,
      <<"g", "o">>, <<"(", "G", "y", "m", ")">>,
      <<"s", "t", "r", "e", "s", "s">>, <<"!">>, <<>> }

TextsOf(n) ==
    UNION {{Join(ws, <<" ">>) : ws \in [1..m -> TextWords]} : m \in 1..n}

Texts == TextsOf(MaxTokens)

---------------------------------------------------------------------------
(* src/app.py: the sentiment adapter, _safe_sentiment and classify.  A     *)
(* score is written in hundredths: 0.5 is 50.                              *)

\* a call that has not returned, has returned v, has raised
Pending == [done |-> FALSE]
Returned(v) == [done |-> TRUE, exc |-> FALSE, v |-> v]
\* the call ended with an exception
Raised == [done |-> TRUE, exc |-> TRUE]

\* str.upper(), character by character
UpperChar(c) ==
    CASE c = "a" -> "A"
      [] c = "e" -> "E"
      [] c = "g" -> "G"
      [] c = "i" -> "I"
      [] c = "l" -> "L"
      [] c = "n" -> "N"
      [] c = "o" -> "O"
      [] c = "r" -> "R"
      [] c = "s" -> "S"
      [] c = "t" -> "T"
      [] c = "u" -> "U"
      [] c = "v" -> "V"
      [] OTHER -> c

Upper(t) == [i \in 1..Len(t) |-> UpperChar(t[i])]

POSITIVE == <<"P", "O", "S", "I", "T", "I", "V", "E">>
NEGATIVE == <<"N", "E", "G", "A", "T", "I", "V", "E">>
NEUTRAL  == <<"N", "E", "U", "T", "R", "A", "L">>

\* what the lambda of _safe_sentiment returns when the pipeline cannot be
\* loaded: [{"label": "NEUTRAL", "score": 0.5}]
StubResult == [label |-> JStr(NEUTRAL), score |-> JNum(50)]

\* what the pipeline can do when called: raise, or return a list whose first
\* item has, or lacks, a label and a score
ScorerResults ==
    [ label : { JAbsent, JNull, JStr(<<>>), JStr(POSITIVE), JStr(NEGATIVE),
                JStr(<<"n", "e", "g", "a", "t", "i", "v", "e">>), JStr(<<"N", "e", "u", "t", "r", "a", "l">>),
                JStr(<<"L", "A", "B", "E", "L", "_", "1">>) },
      score : {JAbsent, JNum(98)} ]

ScorerOutcomes ==
    {[k |-> "raise"]} \cup {[k |-> "result", r |-> r] : r \in ScorerResults}

\* _sentiment(text): the loaded pipeline, or the lambda
CallSentiment(loaded, outcome) ==
    IF loaded THEN outcome ELSE [k |-> "result", r |-> StubResult]

\* the label classify keeps only when it is one of the three: this one
\* returns the upper-cased label as it is
NormalLabelKeepsAll(r) == Upper(PyStr(Get(r.label, JStr(NEUTRAL))))

\* label = str(r.get("label", "NEUTRAL")).upper(), NEUTRAL unless one of the three
NormalLabel(r) ==
    LET label == Upper(PyStr(Get(r.label, JStr(NEUTRAL))))
    IN  IF label \notin {POSITIVE, NEGATIVE, NEUTRAL} THEN NEUTRAL ELSE label

\* classify, given what _sentiment(text)[0] is
ClassifyResult(r) ==
    [label |-> NormalLabel(r), score |-> Get(r.score, JNum(0)).v]

\* classify(text): an exception of the pipeline is not caught
classify(loaded, outcome) ==
    LET o == CallSentiment(loaded, outcome)
    IN  IF o.k = "raise" THEN Raised ELSE Returned(ClassifyResult(o.r))

---------------------------------------------------------------------------
(* src/app.py: the rule-based plan, _smart_plan and _fallback_plan, and    *)
(* the generator's adapter, generate_coach_reply.  The apostrophes and the *)
(* long dashes of the source's sentences are written ' and -.              *)

\* _smart_plan(user_text, slot)
_smart_plan(user_text, s) ==
    LET topics == _keywords(user_text, 5)
    IN  IF s = "morning"
        THEN << <<"Outline ">> \o topics \o <<" in 3 bullets">>,
                <<"Block ", "25", " min (timer on)">>,
                <<"Draft first paragraph/solution">> >>
        ELSE IF s = "midday"
        THEN << <<"Pick the next 10-min step">>,
                <<"Mute notifications and start">>,
                <<"Write a 2-line progress note">> >>
        ELSE << <<"List 2 wins + 1 blocker">>,
                <<"Extract first step for tomorrow">>,
                <<"Prepare materials (file, link, note)">> >>

\* the empathy sentence of a sentiment label
Empathy(sentiment_label) ==
    CASE sentiment_label = NEGATIVE -> "I hear you - let's make this feel lighter."
      [] sentiment_label = POSITIVE -> "Great momentum - let's harness it."
      [] sentiment_label = NEUTRAL  -> "Got it - let's keep it simple."
      [] OTHER -> "I'm with you - let's keep it simple."

\* the text of a plan made of an empathy sentence and 3 steps
PlanText(empathy, steps) ==
    <<"Empathy:", " ", empathy, "\n", "Plan", " (3 steps):", "\n", "1) ">>
      \o steps[1] \o <<"\n", "2) ">> \o steps[2] \o <<"\n", "3) ">> \o steps[3]
      \o <<"\n", "Nudge:", " Begin before you think.", "\n",
           "Mantra:", " small wins compound">>

\* _fallback_plan whose steps are drawn with `random`
_fallback_plan_shuffled(s, user_text, sentiment_label, profile) ==
    LET steps == _smart_plan(user_text, s)
    IN  PlanText(Empathy(sentiment_label),
                 [i \in 1..3 |-> steps[((i + rng - 1) % 3) + 1]])

\* _fallback_plan(slot, user_text, sentiment_label, profile)
_fallback_plan(s, user_text, sentiment_label, profile) ==
    PlanText(Empathy(sentiment_label), _smart_plan(user_text, s))

Markers == {"Empathy:", "Plan", "Nudge:", "Mantra:"}

\* `k in text` for a marker k: markers are fragments of their own
HasMarker(text, k) == \E i \in 1..Len(text) : text[i] = k

\* re.search(r"Empathy:.*", text, flags=re.DOTALL).group(0): the text from
\* the first "Empathy:" on
RECURSIVE FromEmpathy(_)
FromEmpathy(text) ==
    IF text = <<>> \/ Head(text) = "Empathy:" THEN text ELSE FromEmpathy(Tail(text))

\* re.sub(r"\n\s*-\s*", "\n", cleaned): a line break, blanks, a dash and
\* blanks become a line break
RECURSIVE DropBullets(_)
DropBullets(t) ==
    IF t = <<>> THEN <<>>
    ELSE IF Head(t) = "\n"
    THEN LET rest == LStrip(Tail(t))
         IN  IF rest # <<>> /\ Head(rest) = "-"
             THEN <<"\n">> \o DropBullets(LStrip(Tail(rest)))
             ELSE <<"\n">> \o DropBullets(Tail(t))
    ELSE <<Head(t)>> \o DropBullets(Tail(t))

\* lines 229-239 returning the decoded text uncut
ValidateUncut(decoded, s, user_text, sentiment_label, profile) ==
    LET text    == Strip(decoded)
        cleaned == Strip(FromEmpathy(text))
    IN  IF ~HasMarker(text, "Empathy:")
        THEN _fallback_plan(s, user_text, sentiment_label, profile)
        ELSE IF ~(\A k \in Markers : HasMarker(cleaned, k))
        THEN _fallback_plan(s, user_text, sentiment_label, profile)
        ELSE DropBullets(text)

\* lines 229-239: what generate_coach_reply makes of the decoded text
Validate(decoded, s, user_text, sentiment_label, profile) ==
    LET text    == Strip(decoded)
        cleaned == Strip(FromEmpathy(text))
    IN  IF ~HasMarker(text, "Empathy:")
        THEN _fallback_plan(s, user_text, sentiment_label, profile)
        ELSE IF ~(\A k \in Markers : HasMarker(cleaned, k))
        THEN _fallback_plan(s, user_text, sentiment_label, profile)
        ELSE DropBullets(cleaned)

\* generate_coach_reply, given whether the generator was loaded and what
\* _gen_model.generate does: it raises, or returns a text.  The prompt
\* (tone, topics, blockers, profile) is read by the generator only.
generate_coach_reply(s, user_text, sentiment_label, profile, loaded, outcome) ==
    IF ~loaded THEN Returned(_fallback_plan(s, user_text, sentiment_label, profile))
    ELSE IF outcome.k = "raise" THEN Raised
    ELSE Returned(Validate(outcome.text, s, user_text, sentiment_label, profile))

\* the parts a generated text is made of: something before "Empathy:" (a
\* marker of its own among the choices), and each section present or not,
\* the plan with or without dashes, the mantra with or without blanks after
GenBefore == { <<>>, <<" ">>, <<"Sure", "\n">>, <<"Mantra:", " ", "go", "\n">> }
GenEmpathy == { <<>>, <<"Empathy:", " ", "ok", "\n">> }
GenPlan ==
    { <<>>, <<"Plan", ":", "\n", "1)", " ", "a", "\n">>,
      <<"Plan", ":", "\n", " ", "-", " ", "a", "\n", "\n", "-", "b", "\n">> }
GenNudge == { <<>>, <<"Nudge:", " ", "go", "\n">> }
GenMantra == { <<>>, <<"Mantra:", " ", "win">>, <<"Mantra:", " ", "win", "\n", " ">> }

GenTexts ==
    { b \o e \o p \o n \o m :
        b \in GenBefore, e \in GenEmpathy, p \in GenPlan, n \in GenNudge, m \in GenMantra }

GenOutcomes == {[k |-> "raise"]} \cup {[k |-> "text", text |-> t] : t \in GenTexts}

---------------------------------------------------------------------------
(* Functions of src/app.py applied to drawn arguments *)


\* the page of src/streamlit_app.py is not in use
PageAtRest ==
    /\ pc = "idle"
    /\ note = <<>>
    /\ slot = "morning"
    /\ apiKey = "unset"
    /\ canImport = FALSE
    /\ reply = NoReply
    /\ ret = None
    /\ result = None
    /\ calls = 0
    /\ notice = <<>>
    /\ shown = <<>>

KeywordArgs == [s : Texts, k : 0..MaxK]

Call_keywords ==
    /\ fn = "_keywords"
    /\ ~out.done
    /\ out' = Returned(_keywords(args.s, args.k))
    /\ UNCHANGED <<fn, args, again, pageVars, appVars>>

ClassifyArgs ==
    [text : TextsOf(1), loaded : BOOLEAN, outcome : ScorerOutcomes]

Call_classify ==
    /\ fn = "classify"
    /\ ~out.done
    /\ out' = classify(args.loaded, args.outcome)
    /\ UNCHANGED <<fn, args, again, pageVars, appVars>>

Labels == {POSITIVE, NEGATIVE, NEUTRAL}

ReplyArgs ==
    [ slot : Slots, text : TextsOf(1), label : Labels,
      loaded : BOOLEAN, outcome : GenOutcomes ]

Call_generate_coach_reply ==
    /\ fn = "generate_coach_reply"
    /\ ~out.done
    /\ out' = generate_coach_reply(args.slot, args.text, args.label, "profile",
                                   args.loaded, args.outcome)
    /\ UNCHANGED <<fn, args, again, pageVars, appVars>>

\* a label outside the three, as a caller other than on_send could pass
Labels4 == Labels \cup {<<"M", "I", "X", "E", "D">>}

PlanArgs == [slot : Slots, text : TextsOf(2), label : Labels4]

\* _fallback_plan applied once, and once more to the same arguments
Call_fallback_plan ==
    /\ fn = "_fallback_plan"
    /\ ~again.done
    /\ LET r == Returned(_fallback_plan(args.slot, args.text, args.label, "profile"))
       IN  IF out.done THEN again' = r /\ out' = out
                       ELSE out' = r /\ again' = again
    /\ UNCHANGED <<fn, args, pageVars, appVars>>

CoachArgs == [note : Notes, slot : Slots]

\* fallback_coach of src/streamlit_app.py applied once, and once more
Call_fallback_coach ==
    /\ fn = "fallback_coach"
    /\ ~again.done
    /\ LET r == Returned(fallback_coach(args.note, args.slot))
       IN  IF out.done THEN again' = r /\ out' = out
                       ELSE out' = r /\ again' = again
    /\ UNCHANGED <<fn, args, pageVars, appVars>>

---------------------------------------------------------------------------
(* src/app.py: the journal, read_log and append_log                        *)

\* data[-300:] of append_log
LogCap == 300

\* read_log()[-30:] of the handlers
PageRows == 30

\* seq[-n:]
LastN(seq, n) ==
    IF Len(seq) <= n THEN seq ELSE SubSeq(seq, Len(seq) - n + 1, Len(seq))

\* journal.json: missing, or a text that is no JSON, or a list of records
EmptyLog == [state |-> "list", data |-> <<>>]

\* what read_log returns
ReadLog(file) == IF file.state = "list" THEN file.data ELSE <<>>

\* what read_log leaves in the file: "[]" is written when the file is
\* missing or cannot be parsed
AfterRead(file) == IF file.state = "list" THEN file ELSE EmptyLog

\* append_log keeping the first 300 records
AfterAppendKeepsOldest(file, entry) ==
    LET all == Append(ReadLog(file), entry)
    IN  [ state |-> "list",
          data |-> IF Len(all) <= LogCap THEN all ELSE SubSeq(all, 1, LogCap) ]

\* what append_log(entry) leaves in the file
AfterAppend(file, entry) ==
    [state |-> "list", data |-> LastN(Append(ReadLog(file), entry), LogCap)]

---------------------------------------------------------------------------
(* src/app.py: the handlers on_get and on_send.  The emoji of the titles   *)
(* are left out, the typographic quotes are written " and '.               *)

QUOTES ==
    << "Start where you are. Use what you have. Do what you can.",
       "Small steps every day become big changes.",
       "You don't need more time; you need more focus.",
       "Be kind to your mind. You're doing the best you can.",
       "Your future self is already proud of you.",
       "Action cures fear. Move first.",
       "Consistency beats intensity.",
       "Win the morning, win the day.",
       "Progress, not perfection.",
       "One small step today beats zero." >>

\* random_quote(), q being what random.choice draws
random_quote(q) == <<"\"", QUOTES[q], "\"">>

\* base.get(slot, base["morning"])
Base(s) ==
    CASE s = "midday"  -> [title |-> "Midday Check-in",
                           prompt |-> "Quick check-in: how's it going? Any blocker?"]
      [] s = "evening" -> [title |-> "Evening Reflection",
                           prompt |-> "What's one thing you're proud of today?"]
      [] OTHER         -> [title |-> "Morning Boost",
                           prompt |-> "What's your main goal for today?"]

\* the payload of build_message before the analysis is added
Payload(s, q, now) ==
    [ title |-> Base(s).title,
      text  |-> random_quote(q) \o <<"\n", "\n", Base(s).prompt>>,
      slot  |-> s,
      ts    |-> now ]

\* the record on_get appends
GetEntry(p, s) ==
    [ timestamp |-> p.ts, slot |-> s, message |-> p.text, reply |-> <<>>,
      sentiment |-> <<>>, score |-> JStr(<<>>) ]

\* the record on_send appends
SendEntry(now, s, reply_text, plan, sent) ==
    [ timestamp |-> now, slot |-> s, message |-> <<"User: ">> \o reply_text,
      reply |-> plan, sentiment |-> sent.label, score |-> JNum(sent.score) ]

\* p.get("analysis", {"label": "NEUTRAL", "score": 0.0})
DefaultAnalysis == [label |-> NEUTRAL, score |-> 0]

Tones == {"", "calm"}

\* load_profile(): the stored profile, DEFAULT_PROFILE when there is none
PreferredTone == IF profileFile = "missing" THEN "neutral" ELSE profileFile

\* tone_value or prof.get("preferred_tone", "neutral")
EffectiveTone(tone_value) == IF tone_value # "" THEN tone_value ELSE PreferredTone

\* the handlers run at most this many times
MaxRuns == 1

\* the texts typed in the reply box: none, a blank, a word
ReplyTexts == { <<>>, <<" ">>, <<"s", "t", "r", "e", "s", "s">> }

\* what the pipeline does in the program as a whole
AppScorerOutcomes ==
    { [k |-> "raise"],
      [k |-> "result", r |-> [label |-> JStr(NEGATIVE), score |-> JNum(98)]],
      [k |-> "result", r |-> [label |-> JStr(<<"L", "A", "B", "E", "L", "_", "1">>), score |-> JAbsent]] }

\* what the generator does in the program as a whole
AppGenOutcomes ==
    { [k |-> "raise"],
      [k |-> "text", text |-> <<"Sure", "\n", "Empathy:", " ", "ok", "\n", "Plan", ":", "\n",
                                "-", "a", "\n", "Nudge:", " ", "go", "\n", "Mantra:", " ", "win">>],
      [k |-> "text", text |-> <<"Plan", ":", "\n", "1)", " ", "a">>] }

\* on_get(slot_value), q and the clock being what random and utcnow give
on_get(s) ==
    /\ apc = "idle"
    /\ runs < MaxRuns
    /\ \E q \in 1..Len(QUOTES) :
         LET p == Payload(s, q, clock)
         IN  /\ logFile' = AfterAppend(logFile, GetEntry(p, s))
             /\ page' = [ kind |-> "get",
                          prompt |-> <<p.title, "\n", "\n">> \o p.text,
                          journal |-> LastN(ReadLog(logFile'), PageRows) ]
    /\ request' = [handler |-> "on_get", slot |-> s, text |-> <<>>, tone |-> ""]
    /\ rng' = rng + 1
    /\ clock' = clock + 1
    /\ runs' = runs + 1
    /\ scorerCalls' = 0
    /\ genCalls' = 0
    /\ sentiment' = [label |-> <<>>, score |-> 0]
    /\ coach' = <<>>
    /\ UNCHANGED <<apc, sentLoaded, genLoaded, profileFile, pageVars, fnVars>>

\* on_send(slot_value, reply_text, tone_value) up to the call of classify:
\* load_profile, then build_message, which scores a text that is truthy
on_send(s, reply_text, tone_value) ==
    /\ apc = "idle"
    /\ runs < MaxRuns
    /\ request' = [ handler |-> "on_send", slot |-> s, text |-> reply_text,
                    tone |-> EffectiveTone(tone_value) ]
    /\ profileFile' = PreferredTone
    /\ rng' = rng + 1
    /\ clock' = clock + 1
    /\ scorerCalls' = 0
    /\ genCalls' = 0
    /\ coach' = <<>>
    /\ page' = [kind |-> "none"]
    /\ IF reply_text # <<>>
       THEN apc' = "classify" /\ sentiment' = [label |-> <<>>, score |-> 0]
       ELSE apc' = "plan" /\ sentiment' = DefaultAnalysis
    /\ UNCHANGED <<sentLoaded, genLoaded, logFile, runs, pageVars, fnVars>>

\* classify(last_user_text) in build_message: what it raises ends the handler
on_send_classify(outcome) ==
    /\ apc = "classify"
    /\ scorerCalls' = IF sentLoaded THEN scorerCalls + 1 ELSE scorerCalls
    /\ LET r == classify(sentLoaded, outcome)
       IN  IF r.exc
           THEN /\ apc' = "idle"
                /\ page' = [kind |-> "error"]
                /\ runs' = runs + 1
                /\ UNCHANGED sentiment
           ELSE /\ apc' = "plan"
                /\ sentiment' = r.v
                /\ UNCHANGED <<page, runs>>
    /\ UNCHANGED <<request, sentLoaded, genLoaded, coach, logFile, profileFile,
                   genCalls, rng, clock, pageVars, fnVars>>

\* line 312 up to _gen_model.generate: recent_blockers(4) reads the journal,
\* and without a generator the reply is the rule-based plan
on_send_plan ==
    /\ apc = "plan"
    /\ logFile' = AfterRead(logFile)
    /\ IF genLoaded
       THEN apc' = "generate" /\ UNCHANGED coach
       ELSE /\ apc' = "log"
            /\ coach' = generate_coach_reply(request.slot, request.text, sentiment.label,
                                             "profile", FALSE, [k |-> "raise"]).v
    /\ UNCHANGED <<request, sentLoaded, genLoaded, sentiment, profileFile, scorerCalls,
                   genCalls, page, rng, clock, runs, pageVars, fnVars>>

\* _gen_model.generate and the validation of what it returns
on_send_generate(outcome) ==
    /\ apc = "generate"
    /\ genCalls' = genCalls + 1
    /\ LET r == generate_coach_reply(request.slot, request.text, sentiment.label,
                                     "profile", TRUE, outcome)
       IN  IF r.exc
           THEN /\ apc' = "idle"
                /\ page' = [kind |-> "error"]
                /\ runs' = runs + 1
                /\ UNCHANGED coach
           ELSE /\ apc' = "log"
                /\ coach' = r.v
                /\ UNCHANGED <<page, runs>>
    /\ UNCHANGED <<request, sentLoaded, genLoaded, sentiment, logFile, profileFile,
                   scorerCalls, rng, clock, pageVars, fnVars>>

\* lines 313-314: the record is appended and the four outputs returned
on_send_log ==
    /\ apc = "log"
    /\ apc' = "idle"
    /\ logFile' = AfterAppend(logFile, SendEntry(clock, request.slot, request.text, coach, sentiment))
    /\ page' = [ kind |-> "send", analysis |-> sentiment, suggestion |-> request.tone,
                 plan |-> coach, journal |-> LastN(ReadLog(logFile'), PageRows) ]
    /\ clock' = clock + 1
    /\ runs' = runs + 1
    /\ UNCHANGED <<request, sentLoaded, genLoaded, sentiment, coach, profileFile,
                   scorerCalls, genCalls, rng, pageVars, fnVars>>

\* the program starts with the models loaded or not, and with the journal
\* missing or empty
InitApp ==
    /\ PageAtRest
    /\ FnAtRest
    /\ apc = "idle"
    /\ request = [handler |-> "none", slot |-> "morning", text |-> <<>>, tone |-> ""]
    /\ sentLoaded \in BOOLEAN
    /\ genLoaded \in BOOLEAN
    /\ sentiment = [label |-> <<>>, score |-> 0]
    /\ coach = <<>>
    /\ logFile \in {[state |-> "missing", data |-> <<>>], EmptyLog}
    /\ profileFile = "missing"
    /\ scorerCalls = 0
    /\ genCalls = 0
    /\ page = [kind |-> "none"]
    /\ rng = 0
    /\ clock = 0
    /\ runs = 0

NextApp ==
    \/ \E s \in Slots : on_get(s)
    \/ \E s \in Slots, t \in ReplyTexts, tone \in Tones : on_send(s, t, tone)
    \/ \E o \in AppScorerOutcomes : on_send_classify(o)
    \/ on_send_plan
    \/ \E o \in AppGenOutcomes : on_send_generate(o)
    \/ on_send_log

SpecApp == InitApp /\ [][NextApp]_vars

---------------------------------------------------------------------------
(* The journal on its own: append_log and read_log called any number of   *)
(* times, the records being numbered in the order they are appended.       *)

\* the appends of a run
MaxAppends == 302

append_log ==
    /\ runs < MaxAppends
    /\ runs' = runs + 1
    /\ logFile' = AfterAppend(logFile, runs + 1)
    /\ page' = [kind |-> "none"]
    /\ UNCHANGED <<apc, request, sentLoaded, genLoaded, sentiment, coach, profileFile,
                   scorerCalls, genCalls, rng, clock, pageVars, fnVars>>

read_log ==
    /\ page.kind = "none"
    /\ page' = [kind |-> "rows", rows |-> ReadLog(logFile)]
    /\ logFile' = AfterRead(logFile)
    /\ UNCHANGED <<apc, request, sentLoaded, genLoaded, sentiment, coach, profileFile,
                   scorerCalls, genCalls, rng, clock, runs, pageVars, fnVars>>

InitLog ==
    /\ PageAtRest
    /\ FnAtRest
    /\ apc = "idle"
    /\ request = [handler |-> "none", slot |-> "morning", text |-> <<>>, tone |-> ""]
    /\ sentLoaded = TRUE
    /\ genLoaded = TRUE
    /\ sentiment = [label |-> <<>>, score |-> 0]
    /\ coach = <<>>
    /\ logFile \in {[state |-> "missing", data |-> <<>>],
                    [state |-> "corrupt", data |-> <<>>], EmptyLog}
    /\ profileFile = "missing"
    /\ scorerCalls = 0
    /\ genCalls = 0
    /\ page = [kind |-> "none"]
    /\ rng = 0
    /\ clock = 0
    /\ runs = 0

NextLog == append_log \/ read_log

SpecLog == InitLog /\ [][NextLog]_vars

---------------------------------------------------------------------------
(* The functions applied to drawn arguments                                *)

SelectorFns == {"_fallback_plan", "fallback_coach"}

\* between two calls of a selector the program runs on: on_get draws a
\* quote, reads the clock and appends to the journal
Elsewhere ==
    /\ fn \in SelectorFns
    /\ out.done
    /\ ~again.done
    /\ rng = 0
    /\ \E q \in 1..Len(QUOTES) :
         logFile' = AfterAppend(logFile, GetEntry(Payload(args.slot, q, clock), args.slot))
    /\ rng' = rng + 1
    /\ clock' = clock + 1
    /\ UNCHANGED <<apc, request, sentLoaded, genLoaded, sentiment, coach, profileFile,
                   scorerCalls, genCalls, page, runs, pageVars, fnVars>>

InitFn ==
    /\ PageAtRest
    /\ AppAtRest
    /\ \/ fn = "_keywords" /\ args \in KeywordArgs
       \/ fn = "classify" /\ args \in ClassifyArgs
       \/ fn = "generate_coach_reply" /\ args \in ReplyArgs
       \/ fn = "_fallback_plan" /\ args \in PlanArgs
       \/ fn = "fallback_coach" /\ args \in CoachArgs
    /\ out = Pending
    /\ again = Pending

NextFn ==
    \/ Call_keywords
    \/ Call_classify
    \/ Call_generate_coach_reply
    \/ Call_fallback_plan
    \/ Call_fallback_coach
    \/ Elsewhere

SpecFn == InitFn /\ [][NextFn]_vars

---------------------------------------------------------------------------
(* Claims about src/app.py                                                 *)

ScoredAs == CallSentiment(args.loaded, args.outcome).r

\* the label of the scorer is one of the three in some letter case
Recognised == ScoredAs.label.t = "str" /\ Upper(ScoredAs.label.v) \in Labels

\* C12: whatever the scorer returns, the label classify returns is one of
\* POSITIVE, NEGATIVE, NEUTRAL: a recognised label, in any letter case, is
\* kept, and a missing or unrecognised one becomes NEUTRAL.
C12_LabelOneOfThree ==
    (fn = "classify" /\ out.done /\ ~out.exc) =>
        /\ out.v.label \in Labels
        /\ Recognised => out.v.label = Upper(ScoredAs.label.v)
        /\ ~Recognised => out.v.label = NEUTRAL

\* classify returned on a label the pipeline wrote in lower case, and on a
\* label outside the three
C12_Witness ==
    /\ fn = "classify"
    /\ out.done
    /\ ~out.exc
    /\ args.loaded
    /\ \/ ScoredAs.label = JStr(<<"n", "e", "g", "a", "t", "i", "v", "e">>) /\ out.v.label = NEGATIVE
       \/ ScoredAs.label = JStr(<<"L", "A", "B", "E", "L", "_", "1">>) /\ out.v.label = NEUTRAL

\* the text of the check-in is empty or blank
BlankReply == request.handler = "on_send" /\ Strip(request.text) = <<>>

\* C13: for an empty or whitespace-only text the check-in uses the
\* sentiment {NEUTRAL, 0.0} and does not invoke the external scorer.
C13_BlankTextNotScored ==
    BlankReply =>
        /\ scorerCalls = 0
        /\ apc \in {"plan", "generate", "log"} => sentiment = DefaultAnalysis

\* C14: a failure of the scorer, at load or when called, does not leave
\* classify: classify returns NEUTRAL with score 0.0.
C14_ScorerFailureGivesNeutralZero ==
    (fn = "classify" /\ out.done /\ (~args.loaded \/ args.outcome.k = "raise")) =>
        /\ ~out.exc
        /\ out.v = [label |-> NEUTRAL, score |-> 0]

\* the words of the text of _keywords, stripped of punctuation, lower-cased
TextTokens ==
    LET raw == Split(args.s)
    IN  [i \in 1..Len(raw) |-> Lower(StripOf(raw[i], Punctuation))]

\* a word _keywords may return
Qualifies(w) == w # <<>> /\ w \notin _STOPWORDS /\ Len(w) > 2

\* the tokens of the string _keywords returned: it is cut at ", "
ReturnedTokens ==
    IF out.v = Placeholder THEN <<>>
    ELSE LET parts == Split(out.v)
         IN  [i \in 1..Len(parts) |-> RStripOf(parts[i], {","})]

\* where a token first occurs in the text
FirstAt(w) ==
    CHOOSE i \in 1..Len(TextTokens) :
        TextTokens[i] = w /\ \A j \in 1..(i - 1) : TextTokens[j] # w

C16_AppendOnly ==
    logFile.state = "list" => logFile.data = [i \in 1..runs |-> i]

\* a record of a blank note is in the journal
BlankLogged ==
    \E i \in 1..Len(logFile.data) :
        LET m == logFile.data[i].message
        IN  Head(m) = "User: " /\ Strip(Tail(m)) = <<>>

\* C17: an empty or whitespace-only note is rejected before the core is
\* called: no scoring, no generation call, no rule-based selection, no
\* response, and no record of it in the journal.
C17_BlankNoteRejected ==
    /\ BlankReply =>
         /\ apc = "idle"
         /\ scorerCalls = 0
         /\ genCalls = 0
         /\ coach = <<>>
         /\ page.kind # "send"
    /\ ~BlankLogged

\* the generator was loaded and returned a text
Generated == fn = "generate_coach_reply" /\ out.done /\ ~out.exc /\ args.loaded

\* the rule-based plan of the arguments of generate_coach_reply
RuleBased == _fallback_plan(args.slot, args.text, args.label, "profile")

\* C18: the reply of generate_coach_reply starts with "Empathy:" and has the
\* four markers "Empathy:", "Plan", "Nudge:", "Mantra:"; a generated text
\* that lacks a marker is replaced by the text of _fallback_plan, and of a
\* generated text that is kept, what precedes "Empathy:" is dropped.
C18_ReplyHasAllSections ==
    (fn = "generate_coach_reply" /\ out.done /\ ~out.exc) =>
        /\ out.v # <<>>
        /\ Head(out.v) = "Empathy:"
        /\ \A k \in Markers : Mentions(out.v, k)
        /\ ~args.loaded => out.v = RuleBased
        /\ (args.loaded /\ \E k \in Markers : ~Mentions(args.outcome.text, k))
             => out.v = RuleBased
        /\ (args.loaded /\ out.v # RuleBased) =>
             \E i \in 1..Len(args.outcome.text) :
                 /\ args.outcome.text[i] = "Empathy:"
                 /\ \A j \in 1..(i - 1) : args.outcome.text[j] # "Empathy:"
                 /\ out.v = DropBullets(Strip(SubSeq(args.outcome.text, i,
                                                     Len(args.outcome.text))))

\* a generated text with a line before "Empathy:" and dashes in its plan was
\* kept, without the line and the dashes
C18_Witness ==
    /\ Generated
    /\ args.outcome.text # <<>>
    /\ Head(args.outcome.text) = "Sure"
    /\ Mentions(args.outcome.text, "-")
    /\ out.v # RuleBased
    /\ Head(out.v) = "Empathy:"
    /\ ~Mentions(out.v, "-")

\* C19: after any appends to a readable journal, the journal holds at most
\* 300 records, and they are the most recent min(n, 300) of the n appended,
\* in the order of the appends.
C19_KeepsMostRecent ==
    logFile.state = "list" =>
        LET kept == IF runs <= LogCap THEN runs ELSE LogCap
        IN  /\ Len(logFile.data) <= LogCap
            /\ logFile.data = [i \in 1..kept |-> runs - kept + i]

\* more than 300 records were appended and the oldest is gone
C19_Witness ==
    /\ runs > LogCap
    /\ Len(logFile.data) = LogCap
    /\ logFile.data[1] = runs - LogCap + 1
    /\ logFile.data[LogCap] = runs

====
